---- MODULE Spec2Model ----
(***************************************************************************)
(* talks-bot: src/src/scraper.py.  get_next_talk fetches the XML feed of a *)
(* seminar series, picks the first talk of the series and builds a Talk    *)
(* with its announce and reminder datetimes.                               *)
(*                                                                         *)
(* Text is a tuple of one-character strings, so that split, join and       *)
(* slicing act on characters as Python's str does.  A datetime is a record *)
(* [ordinal, hour, minute, second]; ordinal is datetime.toordinal().       *)
(* Feed elements are present and hold non-empty text; Talk.wrapped_abstract*)
(* (textwrap.fill) is not part of the model.                               *)
(***************************************************************************)
EXTENDS Integers, Sequences, FiniteSets, TLC

VARIABLES seminar, remote, pc, requests, upcoming_talks, series_name, talks,
          idx, result, exit_code, error

vars == <<seminar, remote, pc, requests, upcoming_talks, series_name, talks,
          idx, result, exit_code, error>>

----------------------------------------------------------------------------
(* Bounds of the explored inputs *)

MaxTalks == 3
MaxSpeakerLen == 4
MaxChunks == 3
MaxDaysBefore == 3
DaysSpan == 8

(* Program constants *)

days_to_search == 6
SecondsPerDay == 86400
talks_url_base == "http://talks.bham.ac.uk"

----------------------------------------------------------------------------
(* Python values *)

None == [tag |-> "None"]
Some(x) == [tag |-> "Some", val |-> x]
Unset == [tag |-> "Unset"]

Min(a, b) == IF a < b THEN a ELSE b
Max(a, b) == IF a > b THEN a ELSE b

(* s[a:b] with Python's clamping of negative and out-of-range indices *)
PyIndex(n, len) == IF n < 0 THEN Max(len + n, 0) ELSE Min(n, len)
Slice(s, a, b) == SubSeq(s, PyIndex(a, Len(s)) + 1, PyIndex(b, Len(s)))

IsAt(s, sep, i) ==
    /\ i + Len(sep) - 1 <= Len(s)
    /\ SubSeq(s, i, i + Len(sep) - 1) = sep

(* index of the first occurrence of sep in s, 0 when there is none *)
Find(s, sep) ==
    LET hits == {i \in 1..Len(s) : IsAt(s, sep, i)}
    IN  IF hits = {} THEN 0 ELSE CHOOSE i \in hits : \A j \in hits : i <= j

(* str.split(sep): every non-overlapping occurrence, left to right *)
RECURSIVE Split(_, _)
Split(s, sep) ==
    LET j == Find(s, sep)
    IN  IF j = 0 THEN <<s>>
        ELSE <<SubSeq(s, 1, j - 1)>> \o Split(SubSeq(s, j + Len(sep), Len(s)), sep)

(* sep.join(parts) *)
RECURSIVE Join(_, _)
Join(parts, sep) ==
    IF Len(parts) = 0 THEN <<>>
    ELSE IF Len(parts) = 1 THEN parts[1]
    ELSE parts[1] \o sep \o Join(Tail(parts), sep)

RECURSIVE Concat(_)
Concat(parts) == IF Len(parts) = 0 THEN <<>> ELSE parts[1] \o Concat(Tail(parts))

(* html.unescape, for the character reference "&amp;", which html5 also
   knows without its semicolon: one pass, left to right, the replacement
   text is not scanned again *)
Amp == <<"&", "a", "m", "p">>

RECURSIVE unescape(_)
unescape(s) ==
    IF Len(s) = 0 THEN <<>>
    ELSE IF IsAt(s, Amp \o <<";">>, 1)
         THEN <<"&">> \o unescape(SubSeq(s, Len(Amp) + 2, Len(s)))
    ELSE IF IsAt(s, Amp, 1)
         THEN <<"&">> \o unescape(SubSeq(s, Len(Amp) + 1, Len(s)))
    ELSE <<s[1]>> \o unescape(Tail(s))

----------------------------------------------------------------------------
(* datetime *)

DigitChars == <<"0", "1", "2", "3", "4", "5", "6", "7", "8", "9">>
IsDigit(c) == \E i \in 1..10 : DigitChars[i] = c
DigitVal(c) == (CHOOSE i \in 1..10 : DigitChars[i] = c) - 1
AllDigits(s) == \A i \in 1..Len(s) : IsDigit(s[i])

RECURSIVE Number(_)
Number(s) == IF Len(s) = 0 THEN 0
             ELSE 10 * Number(SubSeq(s, 1, Len(s) - 1)) + DigitVal(s[Len(s)])

UpperChars == <<"A", "D", "F", "J", "M", "N", "O", "S", "T", "W">>
LowerChars == <<"a", "d", "f", "j", "m", "n", "o", "s", "t", "w">>
LowerChar(c) == IF \E i \in 1..Len(UpperChars) : UpperChars[i] = c
                THEN LowerChars[CHOOSE i \in 1..Len(UpperChars) : UpperChars[i] = c]
                ELSE c
Lower(s) == [i \in 1..Len(s) |-> LowerChar(s[i])]

WeekdayAbbr == <<<<"m", "o", "n">>, <<"t", "u", "e">>, <<"w", "e", "d">>, <<"t", "h", "u">>, <<"f", "r", "i">>, <<"s", "a", "t">>, <<"s", "u", "n">>>>
MonthAbbr == <<<<"j", "a", "n">>, <<"f", "e", "b">>, <<"m", "a", "r">>, <<"a", "p", "r">>, <<"m", "a", "y">>, <<"j", "u", "n">>, <<"j", "u", "l">>, <<"a", "u", "g">>, <<"s", "e", "p">>, <<"o", "c", "t">>, <<"n", "o", "v">>, <<"d", "e", "c">>>>

IsLeap(y) == y % 4 = 0 /\ (y % 100 # 0 \/ y % 400 = 0)
DaysInMonth(y, m) ==
    IF m = 2 THEN (IF IsLeap(y) THEN 29 ELSE 28)
    ELSE IF m \in {4, 6, 9, 11} THEN 30 ELSE 31

RECURSIVE DaysBeforeMonth(_, _)
DaysBeforeMonth(y, m) ==
    IF m = 1 THEN 0 ELSE DaysBeforeMonth(y, m - 1) + DaysInMonth(y, m - 1)

DaysBeforeYear(y) ==
    LET p == y - 1 IN p * 365 + (p \div 4) - (p \div 100) + (p \div 400)

(* datetime(y, m, d).toordinal(): 1 is 0001-01-01 *)
Ordinal(y, m, d) == DaysBeforeYear(y) + DaysBeforeMonth(y, m) + d

(* datetime.weekday(): Monday is 0, Sunday is 6 *)
weekday(dt) == (dt.ordinal + 6) % 7

(* dt - timedelta(days = n) *)
minus_days(dt, n) == [dt EXCEPT !.ordinal = dt.ordinal - n]

(* dt.replace(hour = h) *)
replace_hour(dt, h) == [dt EXCEPT !.hour = h]

Minutes(dt) == (dt.ordinal * 24 + dt.hour) * 60 + dt.minute

(* a <= b and a < b on datetimes *)
DtLeq(a, b) ==
    Minutes(a) < Minutes(b) \/ (Minutes(a) = Minutes(b) /\ a.second <= b.second)
DtLess(a, b) == DtLeq(a, b) /\ a # b

NonEmpty(parts) == SelectSeq(parts, LAMBDA p : Len(p) > 0)

(* datetime.strptime(s, "%a, %d %b %Y"): the format's blanks match one or
   more blanks, names match without regard to case, the day has one or two
   digits, the year four; the weekday name is not compared with the date.
   [ok |-> FALSE] stands for ValueError. *)
strptime(s) ==
    LET raw == Split(s, <<" ">>)
        tok == NonEmpty(raw)
    IN  IF \/ Len(tok) # 4
           \/ Len(raw[1]) = 0
           \/ Len(raw[Len(raw)]) = 0
        THEN [ok |-> FALSE]
        ELSE LET a == tok[1]
                 d == tok[2]
                 b == Lower(tok[3])
                 Y == tok[4]
             IN  IF \/ Len(a) # 4
                    \/ a[4] # ","
                    \/ ~ \E i \in 1..7 : WeekdayAbbr[i] = Lower(SubSeq(a, 1, 3))
                    \/ ~ (Len(d) \in {1, 2} /\ AllDigits(d))
                    \/ ~ \E i \in 1..12 : MonthAbbr[i] = b
                    \/ ~ (Len(Y) = 4 /\ AllDigits(Y))
                 THEN [ok |-> FALSE]
                 ELSE LET day == Number(d)
                          month == CHOOSE i \in 1..12 : MonthAbbr[i] = b
                          year == Number(Y)
                      IN  IF \/ day < 1
                             \/ year < 1
                             \/ day > DaysInMonth(year, month)
                          THEN [ok |-> FALSE]
                          ELSE [ok |-> TRUE,
                                value |-> [ordinal |-> Ordinal(year, month, day),
                                           hour |-> 0, minute |-> 0, second |-> 0]]

----------------------------------------------------------------------------
(* Talk.__init__ *)

TitlePlaceholder == <<"T", "i", "t", "l", "e", " ", "t", "o", " ", "b", "e", " ", "c", "o", "n", "f", "i", "r", "m", "e", "d">>
AbstractPlaceholder == <<"A", "b", "s", "t", "r", "a", "c", "t", " ", "n", "o", "t", " ", "a", "v", "a", "i", "l", "a", "b", "l", "e">>

weekend_shift_saturday_only(dt) ==
    IF weekday(dt) = 5 THEN minus_days(dt, 2) ELSE dt

weekend_shift_to_friday(dt) ==
    IF weekday(dt) = 5 THEN minus_days(dt, 1)
    ELSE IF weekday(dt) = 6 THEN minus_days(dt, 2)
    ELSE dt

(* "account for weekends" *)
weekend_shift(dt) ==
    IF weekday(dt) = 5 \/ weekday(dt) = 6 THEN minus_days(dt, 2) ELSE dt

announce_datetime(date, sem) ==
    replace_hour(weekend_shift(minus_days(date, sem.announce.days_before)),
                 sem.announce.time)

reminder_datetime_day_before(date, sem) ==
    replace_hour(minus_days(date, 1), sem.reminder.time)

reminder_datetime(date, sem) == replace_hour(date, sem.reminder.time)

has_missing_components_title_only(title, abstract) == title = TitlePlaceholder

has_missing_components(title, abstract) ==
    title = TitlePlaceholder \/ abstract = AbstractPlaceholder

Talk(sem, title, speaker, institution, link, date, start, end, abstract) ==
    [title |-> title,
     series |-> sem.name,
     speaker |-> speaker,
     institution |-> institution,
     link |-> link,
     date |-> date,
     room |-> sem.room,
     zoom |-> sem.zoom,
     announce_datetime |-> announce_datetime(date, sem),
     reminder_datetime |-> reminder_datetime(date, sem),
     start |-> start,
     end |-> end,
     abstract |-> abstract,
     has_missing_components |-> has_missing_components(title, abstract)]

----------------------------------------------------------------------------
(* get_next_talk: the pieces of the loop body *)

get_talks_xml_url(id, range) ==
    [base |-> talks_url_base, path |-> "/show/xml/", id |-> id,
     seconds_before_today |-> 0, seconds_after_today |-> range * SecondsPerDay]

fetch_failed_server_errors_only(status_code) == status_code >= 500

(* make_request: page.status_code != 200 *)
fetch_failed(status_code) == status_code # 200

series_matches_any(talk, name) == TRUE

(* talk.find("series").text == series_name *)
series_matches(talk, name) == talk.series = name

split_speaker_always_cut(text) ==
    LET split_at_bracket == Split(text, <<"(">>)
        n == Len(split_at_bracket)
    IN  IF n = 1
        THEN [speaker |-> Slice(split_at_bracket[1], 0, -1), institution |-> None]
        ELSE [speaker |-> Slice(Join(SubSeq(split_at_bracket, 1, n - 1), <<"(">>), 0, -1),
              institution |-> Some(Slice(split_at_bracket[n], 0, -1))]

split_speaker(text) ==
    LET split_at_bracket == Split(text, <<"(">>)
        n == Len(split_at_bracket)
    IN  IF n = 1
        THEN [speaker |-> split_at_bracket[1], institution |-> None]
        ELSE [speaker |-> Slice(Join(SubSeq(split_at_bracket, 1, n - 1), <<"(">>), 0, -1),
              institution |-> Some(Slice(split_at_bracket[n], 0, -1))]

AbstractTag == <<"*", "A", "b", "s", "t", "r", "a", "c", "t", "*", "\n", "\n">>

extract_abstract(abstract_string) ==
    LET split_at_abstract_tag == Split(abstract_string, AbstractTag)
    IN  IF Len(split_at_abstract_tag) > 1
        THEN split_at_abstract_tag[Len(split_at_abstract_tag)]
        ELSE split_at_abstract_tag[1]

(* talk_start_date_and_time[0:-15] *)
date_string(start_time) == Slice(start_time, 0, -15)

(* text[-14:-9] *)
time_of_day(text) == Slice(text, -14, -9)

(* the Talk the loop body returns for an entry whose date parses *)
build_talk(sem, talk) ==
    LET who == split_speaker(talk.speaker)
    IN  Talk(sem,
             unescape(talk.title),
             who.speaker,
             who.institution,
             talk.url,
             strptime(date_string(talk.start_time)).value,
             time_of_day(talk.start_time),
             time_of_day(talk.end_time),
             extract_abstract(talk.abstract))

----------------------------------------------------------------------------
(* Inputs: seminar configurations and what the remote service answers *)

Hours == {0, 9, 17, 23}

Seminar(days_before, announce_time, reminder_time) ==
    [name |-> "Theory seminar", talks_id |-> 1234, room |-> "LG23",
     zoom |-> "https://zoom.example/j/1",
     announce |-> [days_before |-> days_before, time |-> announce_time],
     reminder |-> [time |-> reminder_time]]

DefaultSeminar == Seminar(2, 9, 9)

Seminars ==
    {Seminar(d, a, r) : d \in 0..MaxDaysBefore, a \in Hours, r \in Hours}

WeekdayName == <<<<"M", "o", "n">>, <<"T", "u", "e">>, <<"W", "e", "d">>, <<"T", "h", "u">>, <<"F", "r", "i">>, <<"S", "a", "t">>, <<"S", "u", "n">>>>
Fmt2(n) == <<DigitChars[(n \div 10) + 1], DigitChars[(n % 10) + 1]>>
Zone == <<" ", "+", "0", "0", "0", "0">>
Secs == <<":", "0", "0">>
NovYear == <<" ", "N", "o", "v", " ", "2", "0", "2", "6">>

(* "Thu, 05 Nov 2026", with the weekday name of that date *)
NovDate(d) ==
    WeekdayName[((Ordinal(2026, 11, d) + 6) % 7) + 1] \o <<",", " ">> \o Fmt2(d) \o NovYear

(* "Thu, 05 Nov 2026 14:00:00 +0000" *)
Timestamp(date, hhmm) == date \o <<" ">> \o hhmm \o Secs \o Zone

T0930 == <<"0", "9", ":", "3", "0">>
T1400 == <<"1", "4", ":", "0", "0">>
T1500 == <<"1", "5", ":", "0", "0">>

GoodStart == Timestamp(NovDate(5), T1400)
GoodEnd == Timestamp(NovDate(5), T1500)

(* start_time texts whose date part strptime accepts, though the text is
   not of the feed's usual layout *)
OddStarts ==
    {NovDate(5) \o <<" ", "X", "X", ":", "Y", "Y", ":", "Z", "Z">> \o Zone,
     <<"M", "o", "n", ",", " ", "0", "5">> \o NovYear \o <<" ">> \o T1400 \o Secs \o Zone,
     <<"t", "h", "u", ",", " ", " ", "5", " ", "n", "o", "v", " ", "2", "0", "2", "6">> \o <<" ">> \o T1400 \o Secs \o Zone,
     NovDate(5) \o <<"T", "1", "4", ":", "0", "0", ":", "0", "0", "+", "0", "0", ":", "0", "0">>}

(* start_time texts whose date part strptime rejects *)
BadStarts ==
    {<<"s", "o", "o", "n">>,
     <<"2", "0", "2", "6", "-", "1", "1", "-", "0", "5", "T">> \o T1400 \o Secs \o <<"+", "0", "0", ":", "0", "0">>,
     NovDate(5) \o <<" ">> \o T1400,
     <<"T", "h", "u", ",", " ", "3", "1">> \o NovYear \o <<" ">> \o T1400 \o Secs \o Zone,
     <<"T", "h", "u", " ", "0", "5">> \o NovYear \o <<" ">> \o T1400 \o Secs \o Zone,
     <<" ">> \o GoodStart}

BadEnds ==
    {<<"s", "o", "o", "n">>,
     <<"2", "0", "2", "6", "-", "1", "1", "-", "0", "5", "T">> \o T1500 \o Secs \o <<"+", "0", "0", ":", "0", "0">>,
     NovDate(5) \o <<" ">> \o T1500}

JaneUni == <<"J", "a", "n", "e", " ", "D", "o", "e", " ", "(", "U", "n", "i", "v", "e", "r", "s", "i", "t", "y", " ", "o", "f", " ", "X", ")">>
JaneDrUni == <<"J", "a", "n", "e", " ", "D", "o", "e", " ", "(", "D", "r", ".", ")", " ", "(", "U", "n", "i", "v", "e", "r", "s", "i", "t", "y", " ", "o", "f", " ", "X", ")">>
JanePlain == <<"J", "a", "n", "e", " ", "D", "o", "e">>
JaneNoSpace == <<"J", "a", "n", "e", " ", "D", "o", "e", "(", "U", "n", "i", "v", "e", "r", "s", "i", "t", "y", " ", "o", "f", " ", "X", ")">>

SpeakerChars == {"a", " ", "(", ")"}
SpeakerTexts ==
    UNION {[1..k -> SpeakerChars] : k \in 1..MaxSpeakerLen}
        \cup {JaneUni, JaneDrUni, JanePlain, JaneNoSpace}

NearTag == <<"*", "A", "b", "s", "t", "r", "a", "c", "t", "*", "\n">>
Preamble == <<"Z", "o", "o", "m", " ", "l", "i", "n", "k", "\n", "\n">>
Body == <<"T", "h", "i", "s", " ", "t", "a", "l", "k">>
AbstractChunks == {AbstractTag, NearTag, AbstractPlaceholder, Preamble, Body}
AbstractTexts ==
    UNION {{Concat(f) : f \in [1..k -> AbstractChunks]} : k \in 1..MaxChunks}

Titles ==
    {<<"T">>,
     TitlePlaceholder,
     TitlePlaceholder \o <<"!">>,
     <<"A", " ">> \o Amp \o <<";", " ", "B">>,
     Amp \o Amp \o <<";", "a", "m", "p", ";">>,
     TitlePlaceholder \o <<" ">> \o Amp \o <<";">>}

Entry(series, title, speaker, url, start_time, end_time, abstract) ==
    [series |-> series, title |-> title, speaker |-> speaker, url |-> url,
     start_time |-> start_time, end_time |-> end_time, abstract |-> abstract]

DefaultEntry ==
    Entry("Theory", <<"T">>, JaneUni, "/talk/index/1", GoodStart, GoodEnd, Body)

(* the entries a feed of several talks is made of: two talks of the series,
   a cross-posted talk, one whose series name differs by a blank, and a talk
   of the series whose start_time has no date *)
EntryKinds ==
    {DefaultEntry,
     [DefaultEntry EXCEPT !.title = TitlePlaceholder, !.url = "/talk/index/2",
                          !.speaker = JanePlain],
     [DefaultEntry EXCEPT !.series = "Other", !.url = "/talk/index/3"],
     [DefaultEntry EXCEPT !.series = "Theory ", !.url = "/talk/index/4"],
     [DefaultEntry EXCEPT !.start_time = <<"s", "o", "o", "n">>, !.url = "/talk/index/5"]}

Feed(name, entries) == [well_formed |-> TRUE, name |-> name, talks |-> entries]
NotXml == [well_formed |-> FALSE, name |-> "", talks |-> <<>>]

Statuses == {200, 201, 204, 302, 404, 500}

Response(status_code, content) == [status_code |-> status_code, content |-> content]

SeriesScenarios ==
    {[seminar |-> DefaultSeminar, remote |-> Response(200, Feed(n, f))] :
        n \in {"Theory", "Other"},
        f \in UNION {[1..k -> EntryKinds] : k \in 0..MaxTalks}}

SpeakerScenarios ==
    {[seminar |-> DefaultSeminar,
      remote |-> Response(200, Feed("Theory", <<[DefaultEntry EXCEPT !.speaker = t]>>))] :
        t \in SpeakerTexts}

AbstractScenarios ==
    {[seminar |-> DefaultSeminar,
      remote |-> Response(200, Feed("Theory",
                    <<[DefaultEntry EXCEPT !.abstract = a, !.title = t]>>))] :
        a \in AbstractTexts, t \in Titles}

TimeScenarios ==
    {[seminar |-> DefaultSeminar,
      remote |-> Response(200, Feed("Theory",
                    <<[DefaultEntry EXCEPT !.start_time = s, !.end_time = e],
                      DefaultEntry>>))] :
        s \in {GoodStart} \cup OddStarts \cup BadStarts,
        e \in {GoodEnd} \cup BadEnds}

ScheduleScenarios ==
    {[seminar |-> sem,
      remote |-> Response(200, Feed("Theory",
                    <<[DefaultEntry EXCEPT !.start_time = Timestamp(NovDate(d), t)]>>))] :
        sem \in Seminars, d \in 1..DaysSpan, t \in {T0930, T1400}}

FetchScenarios ==
    {[seminar |-> DefaultSeminar, remote |-> Response(c, b)] :
        c \in Statuses, b \in {NotXml, Feed("Theory", <<DefaultEntry>>)}}

Scenarios ==
    SeriesScenarios \cup SpeakerScenarios \cup AbstractScenarios
        \cup TimeScenarios \cup ScheduleScenarios \cup FetchScenarios

----------------------------------------------------------------------------
(* The run of get_next_talk(config, seminar) *)

Init ==
    /\ \E sc \in Scenarios : seminar = sc.seminar /\ remote = sc.remote
    /\ pc = "make_request"
    /\ requests = <<>>
    /\ upcoming_talks = Unset
    /\ series_name = Unset
    /\ talks = <<>>
    /\ idx = 0
    /\ result = Unset
    /\ exit_code = 0
    /\ error = "none"

(* make_request: requests.get(link), status 200, return page.content *)
make_request_ok ==
    /\ pc = "make_request"
    /\ ~ fetch_failed(remote.status_code)
    /\ requests' = Append(requests, get_talks_xml_url(seminar.talks_id, days_to_search))
    /\ upcoming_talks' = Some(remote.content)
    /\ pc' = "fromstring"
    /\ UNCHANGED <<seminar, remote, series_name, talks, idx, result, exit_code, error>>

(* make_request: requests.get(link), any other status, exit(1) *)
make_request_exit ==
    /\ pc = "make_request"
    /\ fetch_failed(remote.status_code)
    /\ requests' = Append(requests, get_talks_xml_url(seminar.talks_id, days_to_search))
    /\ pc' = "exited"
    /\ exit_code' = 1
    /\ UNCHANGED <<seminar, remote, upcoming_talks, series_name, talks, idx, result, error>>

(* ET.fromstring, root.find("name").text, root.findall("talk") *)
fromstring_ok ==
    /\ pc = "fromstring"
    /\ upcoming_talks.val.well_formed
    /\ series_name' = Some(upcoming_talks.val.name)
    /\ talks' = upcoming_talks.val.talks
    /\ idx' = 1
    /\ pc' = "loop"
    /\ UNCHANGED <<seminar, remote, requests, upcoming_talks, result, exit_code, error>>

(* ET.fromstring raises ParseError *)
fromstring_raises ==
    /\ pc = "fromstring"
    /\ ~ upcoming_talks.val.well_formed
    /\ pc' = "raised"
    /\ error' = "ParseError"
    /\ UNCHANGED <<seminar, remote, requests, upcoming_talks, series_name, talks, idx,
                   result, exit_code>>

(* the for loop goes on to the next talk *)
loop_skip ==
    /\ pc = "loop"
    /\ idx <= Len(talks)
    /\ ~ series_matches(talks[idx], series_name.val)
    /\ idx' = idx + 1
    /\ UNCHANGED <<seminar, remote, pc, requests, upcoming_talks, series_name, talks,
                   result, exit_code, error>>

(* the loop body returns the Talk *)
loop_return ==
    /\ pc = "loop"
    /\ idx <= Len(talks)
    /\ series_matches(talks[idx], series_name.val)
    /\ strptime(date_string(talks[idx].start_time)).ok
    /\ result' = Some(build_talk(seminar, talks[idx]))
    /\ pc' = "returned"
    /\ UNCHANGED <<seminar, remote, requests, upcoming_talks, series_name, talks, idx,
                   exit_code, error>>

loop_raise_skips ==
    /\ pc = "loop"
    /\ idx <= Len(talks)
    /\ series_matches(talks[idx], series_name.val)
    /\ ~ strptime(date_string(talks[idx].start_time)).ok
    /\ idx' = idx + 1
    /\ UNCHANGED <<seminar, remote, pc, requests, upcoming_talks, series_name, talks,
                   result, exit_code, error>>

(* datetime.strptime raises ValueError, which nothing catches *)
loop_raise ==
    /\ pc = "loop"
    /\ idx <= Len(talks)
    /\ series_matches(talks[idx], series_name.val)
    /\ ~ strptime(date_string(talks[idx].start_time)).ok
    /\ pc' = "raised"
    /\ error' = "ValueError"
    /\ UNCHANGED <<seminar, remote, requests, upcoming_talks, series_name, talks, idx,
                   result, exit_code>>

(* the loop ends: return None *)
return_none ==
    /\ pc = "loop"
    /\ idx > Len(talks)
    /\ result' = None
    /\ pc' = "returned"
    /\ UNCHANGED <<seminar, remote, requests, upcoming_talks, series_name, talks, idx,
                   exit_code, error>>

Next ==
    \/ make_request_ok
    \/ make_request_exit
    \/ fromstring_ok
    \/ fromstring_raises
    \/ loop_skip
    \/ loop_return
    \/ loop_raise
    \/ return_none

Spec == Init /\ [][Next]_vars

----------------------------------------------------------------------------
(* What the properties below speak of *)

TheFeed == remote.content

(* the positions of the entries whose series is the feed root's name *)
Matching ==
    {i \in 1..Len(TheFeed.talks) : TheFeed.talks[i].series = TheFeed.name}

FirstMatch == CHOOSE i \in Matching : \A j \in Matching : i <= j

FirstEntry == TheFeed.talks[FirstMatch]

Returned == pc = "returned" /\ result.tag = "Some"

(* the entry the returned Talk was built from *)
Chosen == talks[idx]

HasBracket(text) == \E i \in 1..Len(text) : text[i] = "("
LastBracket(text) ==
    CHOOSE i \in 1..Len(text) : text[i] = "(" /\ \A j \in (i + 1)..Len(text) : text[j] # "("

IsBlank(c) == c \in {" ", "\n"}

RECURSIVE StripLeft(_)
StripLeft(s) == IF Len(s) > 0 /\ IsBlank(s[1]) THEN StripLeft(Tail(s)) ELSE s

RECURSIVE StripRight(_)
StripRight(s) ==
    IF Len(s) > 0 /\ IsBlank(s[Len(s)]) THEN StripRight(SubSeq(s, 1, Len(s) - 1)) ELSE s

(* str.strip() *)
Strip(s) == StripRight(StripLeft(s))

EndsWith(s, tail) ==
    Len(tail) <= Len(s) /\ SubSeq(s, Len(s) - Len(tail) + 1, Len(s)) = tail

(* "HH:MM" *)
IsClock(s) ==
    /\ Len(s) = 5
    /\ s[3] = ":"
    /\ AllDigits(<<s[1], s[2], s[4], s[5]>>)

ClockMinutes(s) == Number(<<s[1], s[2]>>) * 60 + Number(<<s[4], s[5]>>)

(* the talk's start: its date at its start time-of-day *)
StartDatetime(t) ==
    [ordinal |-> t.date.ordinal,
     hour |-> Number(<<t.start[1], t.start[2]>>),
     minute |-> Number(<<t.start[4], t.start[5]>>),
     second |-> 0]

(* " HH:MM:SS +ZZZZ", the 15 characters that end a timestamp of the feed *)
IsTimeSuffix(s) ==
    /\ Len(s) = 15
    /\ s[1] = " " /\ s[4] = ":" /\ s[7] = ":" /\ s[10] = " " /\ s[11] \in {"+", "-"}
    /\ AllDigits(<<s[2], s[3], s[5], s[6], s[8], s[9], s[12], s[13], s[14], s[15]>>)

(* the fixed-width layout "Www, dd Mmm yyyy HH:MM:SS +ZZZZ" *)
LayoutOk(s) ==
    /\ Len(s) = 31
    /\ strptime(SubSeq(s, 1, 16)).ok
    /\ IsTimeSuffix(SubSeq(s, 17, 31))

----------------------------------------------------------------------------
(* C1: get_next_talk returns the Talk built from the first entry, in feed
   order, whose series equals the feed root's name: the loop never passes
   that entry, an entry of another series is never selected, the entries
   after it play no part, and the result is None exactly when no entry
   matches. *)
C1_FirstMatchWins ==
    (TheFeed.well_formed /\ pc \in {"loop", "returned", "raised"}) =>
        /\ (pc = "loop" /\ Matching # {}) => idx <= FirstMatch
        /\ pc = "returned" => (result = None <=> Matching = {})
        /\ (pc = "returned" /\ Matching # {}) =>
              /\ idx = FirstMatch
              /\ result = Some(build_talk(seminar, FirstEntry))
              /\ result.val.link = FirstEntry.url
        /\ pc = "raised" => (Matching # {} /\ idx = FirstMatch)

C1_Witness ==
    /\ Returned
    /\ Len(talks) = 3
    /\ idx = 2
    /\ talks[1].series # series_name.val
    /\ talks[3].series = series_name.val
    /\ talks[3] # talks[2]

(* C2: the weekday of announce_datetime is never Saturday (5) or Sunday (6). *)
C2_AnnounceNeverWeekend ==
    Returned => weekday(result.val.announce_datetime) \notin {5, 6}

C2_Witness ==
    /\ Returned
    /\ (result.val.date.ordinal - seminar.announce.days_before + 6) % 7 = 6

(* C3 as stated: announce_datetime <= reminder_datetime <= the talk's start,
   whatever announce.time, reminder.time and the start time-of-day are. *)
C3_Ordered ==
    (Returned /\ IsClock(result.val.start)) =>
        /\ DtLeq(result.val.announce_datetime, result.val.reminder_datetime)
        /\ DtLeq(result.val.reminder_datetime, StartDatetime(result.val))

(* C3 amended: the announce date is not after the talk date and the reminder
   date is the talk date; announce_datetime <= reminder_datetime exactly when
   the announce date is before the talk date or announce.time <=
   reminder.time; reminder_datetime <= the talk's start exactly when
   reminder.time, as HH:00, is not after the start time-of-day. *)
C3_OrderedWhenHoursAllow ==
    (Returned /\ IsClock(result.val.start)) =>
        LET t == result.val
            a == t.announce_datetime
            r == t.reminder_datetime
        IN  /\ a.ordinal <= t.date.ordinal
            /\ r.ordinal = t.date.ordinal
            /\ DtLeq(a, r) <=>
                  (a.ordinal < t.date.ordinal
                      \/ seminar.announce.time <= seminar.reminder.time)
            /\ DtLeq(r, StartDatetime(t)) <=>
                  seminar.reminder.time * 60 <= ClockMinutes(t.start)

C3_Witness ==
    /\ Returned
    /\ IsClock(result.val.start)
    /\ seminar.announce.days_before = 0
    /\ result.val.announce_datetime.ordinal = result.val.date.ordinal
    /\ seminar.announce.time < seminar.reminder.time
    /\ DtLess(result.val.announce_datetime, result.val.reminder_datetime)
    /\ DtLess(result.val.reminder_datetime, StartDatetime(result.val))

(* C4: announce_datetime is the talk date minus days_before days, moved back
   by 2 further days exactly when that date is a Saturday or a Sunday, at
   hour announce.time, minute and second zero; a Monday talk with
   days_before = 2 is announced on the Thursday four days earlier. *)
C4_AnnounceDatetime ==
    Returned =>
        LET t == result.val
            raw == t.date.ordinal - seminar.announce.days_before
            day == IF (raw + 6) % 7 \in {5, 6} THEN raw - 2 ELSE raw
        IN  /\ t.announce_datetime =
                  [ordinal |-> day, hour |-> seminar.announce.time,
                   minute |-> 0, second |-> 0]
            /\ ((t.date.ordinal + 6) % 7 = 0 /\ seminar.announce.days_before = 2) =>
                  /\ (t.announce_datetime.ordinal + 6) % 7 = 3
                  /\ t.announce_datetime.ordinal = t.date.ordinal - 4

C4_Witness ==
    /\ Returned
    /\ (result.val.date.ordinal + 6) % 7 = 0
    /\ seminar.announce.days_before = 2
    /\ seminar.announce.time = 17

(* C5: the abstract is all text after the first occurrence of the marker
   when the marker occurs, once or several times, and the whole text when it
   does not. *)
C5_AfterFirstTag ==
    Returned =>
        LET raw == Chosen.abstract
            j == Find(raw, AbstractTag)
        IN  result.val.abstract =
                IF j = 0 THEN raw ELSE SubSeq(raw, j + Len(AbstractTag), Len(raw))

(* C6 as stated: for speaker text without "(", the institution is None and
   the speaker is the text with leading and trailing whitespace trimmed. *)
C6_SpeakerTrimmed ==
    (Returned /\ ~ HasBracket(Chosen.speaker)) =>
        /\ result.val.institution = None
        /\ result.val.speaker = Strip(Chosen.speaker)

(* C6 amended: for speaker text without "(", the institution is None and
   the speaker is the text unchanged, its leading and trailing whitespace
   kept. *)
C6_SpeakerUnchanged ==
    (Returned /\ ~ HasBracket(Chosen.speaker)) =>
        /\ result.val.institution = None
        /\ result.val.speaker = Chosen.speaker

C6_Witness ==
    /\ Returned
    /\ ~ HasBracket(Chosen.speaker)
    /\ Len(Chosen.speaker) = 3
    /\ Chosen.speaker[1] = " "
    /\ Chosen.speaker[3] = " "
    /\ result.val.speaker = Chosen.speaker

(* C7: for speaker text with a "(", the institution is the text after the
   last "(" less its trailing ")", the speaker is the text before the last
   "(" less the blank before it, and no other character is dropped. *)
C7_LastBracketOnly ==
    (Returned /\ HasBracket(Chosen.speaker)) =>
        LET text == Chosen.speaker
            k == LastBracket(text)
        IN  /\ result.val.institution.tag = "Some"
            /\ SubSeq(text, k + 1, Len(text)) = result.val.institution.val \o <<")">>
            /\ SubSeq(text, 1, k - 1) = result.val.speaker \o <<" ">>

(* C8: when the response to the feed request has a status outside 200..299
   the run ends in exit(1) right after that one request: no second request,
   the body is not parsed, and nothing is returned. *)
C8_NonSuccessIsFatal ==
    (remote.status_code \notin 200..299) =>
        /\ pc \in {"make_request", "exited"}
        /\ Len(requests) = (IF pc = "exited" THEN 1 ELSE 0)
        /\ pc = "exited" => exit_code = 1
        /\ upcoming_talks = Unset
        /\ series_name = Unset
        /\ talks = <<>>
        /\ result = Unset

C8_Witness ==
    /\ pc = "exited"
    /\ exit_code = 1
    /\ remote.status_code = 404
    /\ remote.content.well_formed
    /\ Len(requests) = 1

(* C9 as stated: when the first matching entry's start_time or end_time is
   not of the fixed-width timestamp layout, extraction raises and returns
   nothing. *)
C9_AnyBadTimestampRaises ==
    (/\ TheFeed.well_formed
     /\ pc \in {"returned", "raised"}
     /\ Matching # {}
     /\ (~ LayoutOk(FirstEntry.start_time) \/ ~ LayoutOk(FirstEntry.end_time))) =>
        /\ pc = "raised"
        /\ result = Unset

(* C9 amended: when the date part of the first matching entry's start_time
   (the text less its last 15 characters) is not a date of the form
   "%a, %d %b %Y", extraction raises ValueError at that entry: no Talk, no
   None, no later entry tried.  Otherwise nothing is raised, whatever the
   time-of-day part and the end_time are: the Talk is returned with start
   and end the characters [-14:-9] of the two fields. *)
C9_BadDateRaises ==
    (/\ TheFeed.well_formed
     /\ pc \in {"returned", "raised"}
     /\ Matching # {}) =>
        IF strptime(Slice(FirstEntry.start_time, 0, -15)).ok
        THEN /\ pc = "returned"
             /\ result.tag = "Some"
             /\ result.val.start = Slice(FirstEntry.start_time, -14, -9)
             /\ result.val.end = Slice(FirstEntry.end_time, -14, -9)
        ELSE /\ pc = "raised"
             /\ error = "ValueError"
             /\ result = Unset
             /\ idx = FirstMatch

C9_Witness ==
    /\ pc = "raised"
    /\ error = "ValueError"
    /\ idx = 1
    /\ Len(talks) = 2
    /\ talks[2].series = series_name.val
    /\ LayoutOk(talks[2].start_time)
    /\ Len(talks[1].start_time) = 31
    /\ LayoutOk(talks[1].end_time)

(* C10: has_missing_components is true exactly when the title is "Title to
   be confirmed" or the text after the marker (the whole box when it has no
   marker) is "Abstract not available"; the Talk is returned all the same. *)
C10_MissingComponents ==
    (pc = "returned" /\ Matching # {}) =>
        /\ result.tag = "Some"
        /\ result.val.has_missing_components <=>
              \/ result.val.title = TitlePlaceholder
              \/ Chosen.abstract = AbstractPlaceholder
              \/ EndsWith(Chosen.abstract, AbstractTag \o AbstractPlaceholder)

C10_Witness ==
    /\ Returned
    /\ result.val.has_missing_components
    /\ result.val.title # TitlePlaceholder
    /\ Chosen.abstract = AbstractPlaceholder \o AbstractTag \o AbstractPlaceholder

====
